---- MODULE Spec2Model ----
(***************************************************************************)
(* A model of murl (src/src/lib.rs): Scheme::parse, Label::from_str,       *)
(* Host::parse, Url::from_str, Display for Url and Url::into_parent.       *)
(*                                                                         *)
(* Text is a sequence of bytes (0..255).  Raw input text is ASCII, so a    *)
(* byte of raw input is a char; bytes above 127 appear only as the result  *)
(* of percent-decoding, where the code asks whether they are valid UTF-8.  *)
(* char::is_alphabetic and char::is_numeric are modelled on ASCII, and      *)
(* paths as camino handles them on Unix.                                   *)
(* An Option<T> is a sequence of length 0 (None) or 1 (Some).              *)
(***************************************************************************)
EXTENDS Integers, Sequences, FiniteSets, TLC

VARIABLES
    input,   \* the text the caller holds: the text to parse, or the last to_string
    url,     \* Option<Url>: the Url the caller holds
    origin,  \* how url was obtained: "none", "built" (field by field) or "parsed"
    result,  \* the result of the last parse
    op,      \* the last operation
    shown,   \* Option: the Url (with its origin) whose to_string wrote input
    inner,   \* Option<Url>: the Url whose text was last inserted as a query value
    nest,    \* how many times a Url's text was inserted as a query value
    base,    \* Option<Url>: the Url the into_parent calls started from
    pops     \* the number of into_parent calls since base

vars == <<input, url, origin, result, op, shown, inner, nest, base, pops>>

-----------------------------------------------------------------------------
(* Characters and text literals.                                           *)

\* The printable ASCII characters, in code order starting at 32; the double
\* quote, the backslash and the backtick are written by name.
Chars ==
    << " ", "!", "quote", "#", "$", "%", "&", "'", "(", ")", "*", "+", ",", "-", ".", "/",
       "0", "1", "2", "3", "4", "5", "6", "7", "8", "9", ":", ";", "<", "=", ">", "?",
       "@", "A", "B", "C", "D", "E", "F", "G", "H", "I", "J", "K", "L", "M", "N", "O",
       "P", "Q", "R", "S", "T", "U", "V", "W", "X", "Y", "Z", "[", "backslash", "]", "^", "_",
       "backtick", "a", "b", "c", "d", "e", "f", "g", "h", "i", "j", "k", "l", "m", "n", "o",
       "p", "q", "r", "s", "t", "u", "v", "w", "x", "y", "z", "{", "|", "}", "~" >>

OrdTable == [c \in {Chars[i] : i \in 1..Len(Chars)} |->
                31 + (CHOOSE i \in 1..Len(Chars) : Chars[i] = c)]

\* The byte of an ASCII character.
Ord(c) == OrdTable[c]

RECURSIVE T(_)
\* The text of a tuple of characters: T(<<"w","s">>) is the text "ws".
T(s) == IF s = <<>> THEN <<>> ELSE <<Ord(Head(s))>> \o T(Tail(s))

Take(s, n) == SubSeq(s, 1, n)
Drop(s, n) == SubSeq(s, n + 1, Len(s))

\* str::strip_prefix: Some(rest) or None.
StripPrefix(s, p) ==
    IF Len(s) >= Len(p) /\ Take(s, Len(p)) = p THEN <<Drop(s, Len(p))>> ELSE <<>>

\* str::find with a set of chars: the index of the first char in S, or 0.
FindIn(s, S) ==
    IF \E i \in 1..Len(s) : s[i] \in S
    THEN CHOOSE i \in 1..Len(s) : s[i] \in S /\ \A j \in 1..(i - 1) : s[j] \notin S
    ELSE 0

RECURSIVE Split(_, _)
\* str::split(sep): the pieces between separators; never an empty sequence.
Split(s, sep) ==
    LET i == FindIn(s, {sep})
    IN  IF i = 0 THEN <<s>> ELSE <<Take(s, i - 1)>> \o Split(Drop(s, i), sep)

\* str::split_once(sep): Some((before, after)) at the first separator, or None.
SplitOnce(s, sep) ==
    LET i == FindIn(s, {sep})
    IN  IF i = 0 THEN <<>> ELSE << <<Take(s, i - 1), Drop(s, i)>> >>

\* char::is_alphabetic, on ASCII.
IsAlphabetic(c) ==
    \/ c >= Ord("A") /\ c <= Ord("Z")
    \/ c >= Ord("a") /\ c <= Ord("z")

\* char::is_numeric, on ASCII.
IsNumeric(c) == c >= Ord("0") /\ c <= Ord("9")

-----------------------------------------------------------------------------
(* Percent-encoding (the percent_encoding crate, with ESCAPE_SET).         *)

IsHex(c) ==
    \/ IsNumeric(c)
    \/ c >= Ord("A") /\ c <= Ord("F")
    \/ c >= Ord("a") /\ c <= Ord("f")

HexVal(c) ==
    IF IsNumeric(c) THEN c - Ord("0")
    ELSE IF c >= Ord("a") THEN c - Ord("a") + 10
    ELSE c - Ord("A") + 10

HexDigit(n) == IF n < 10 THEN Ord("0") + n ELSE Ord("A") + (n - 10)

\* percent_encoding::CONTROLS: the C0 controls and DEL.
CONTROLS == (0..31) \cup {127}

\* ESCAPE_SET without the percent sign itself.
EscapeSetWithoutPercent ==
    CONTROLS \cup { Ord(" "), Ord("quote"), Ord("backtick"), Ord("<"), Ord(">"),
                    Ord("?"), Ord("#"), Ord("="), Ord("&"),
                    Ord("{"), Ord("}") }

ESCAPE_SET ==
    CONTROLS \cup { Ord(" "), Ord("quote"), Ord("backtick"), Ord("<"), Ord(">"),
                    Ord("?"), Ord("#"), Ord("="), Ord("&"),
                    Ord("{"), Ord("}"), Ord("%") }

\* Whether percent_encode writes byte b as %XX: a non-ASCII byte always is.
ShouldEscape(b) == b >= 128 \/ b \in ESCAPE_SET

RECURSIVE PercentEncode(_)
PercentEncode(s) ==
    IF s = <<>> THEN <<>>
    ELSE LET b == Head(s)
         IN  (IF ShouldEscape(b)
              THEN <<Ord("%"), HexDigit(b \div 16), HexDigit(b % 16)>>
              ELSE <<b>>) \o PercentEncode(Tail(s))

RECURSIVE PercentDecode(_)
\* percent_decode: %XX with two hex digits is one byte; any other percent sign stays.
PercentDecode(s) ==
    IF s = <<>> THEN <<>>
    ELSE IF s[1] = Ord("%") /\ Len(s) >= 3 /\ IsHex(s[2]) /\ IsHex(s[3])
         THEN <<HexVal(s[2]) * 16 + HexVal(s[3])>> \o PercentDecode(Drop(s, 3))
         ELSE <<s[1]>> \o PercentDecode(Tail(s))

\* A UTF-8 continuation byte in lo..hi at position i of s.
Cont(s, i, lo, hi) == Len(s) >= i /\ s[i] >= lo /\ s[i] <= hi

RECURSIVE IsUtf8(_)
\* std::str::from_utf8 succeeds on s.
IsUtf8(s) ==
    IF s = <<>> THEN TRUE
    ELSE LET b == s[1]
         IN  IF b < 128 THEN IsUtf8(Tail(s))
             ELSE IF b >= 194 /\ b <= 223
                  THEN Cont(s, 2, 128, 191) /\ IsUtf8(Drop(s, 2))
             ELSE IF b >= 224 /\ b <= 239
                  THEN /\ Cont(s, 2, IF b = 224 THEN 160 ELSE 128,
                                     IF b = 237 THEN 159 ELSE 191)
                       /\ Cont(s, 3, 128, 191)
                       /\ IsUtf8(Drop(s, 3))
             ELSE IF b >= 240 /\ b <= 244
                  THEN /\ Cont(s, 2, IF b = 240 THEN 144 ELSE 128,
                                     IF b = 244 THEN 143 ELSE 191)
                       /\ Cont(s, 3, 128, 191)
                       /\ Cont(s, 4, 128, 191)
                       /\ IsUtf8(Drop(s, 4))
             ELSE FALSE

\* percent_decode(..).decode_utf8(): Some(text) or None.
DecodeUtf8(s) ==
    LET d == PercentDecode(s) IN IF IsUtf8(d) THEN <<d>> ELSE <<>>

-----------------------------------------------------------------------------
(* Scheme.                                                                 *)

\* The variants with each literal before the longer one it is a prefix of.
VariantsShortestFirst == <<"Ws", "Wss", "Http", "Https">>

\* Scheme::VARIANTS: the variants in declaration order.
Variants == <<"Wss", "Ws", "Https", "Http">>

\* strum's serialization of a variant (as_ref and Display).
SchemeText(v) ==
    CASE v = "Wss"   -> T(<<"w", "s", "s">>)
      [] v = "Ws"    -> T(<<"w", "s">>)
      [] v = "Https" -> T(<<"h", "t", "t", "p", "s">>)
      [] v = "Http"  -> T(<<"h", "t", "t", "p">>)

\* Scheme::parse: the first variant, in order, whose text is a prefix.
SchemeParse(inp) ==
    LET hits == {i \in 1..Len(Variants) : StripPrefix(inp, SchemeText(Variants[i])) # <<>>}
    IN  IF hits = {}
        THEN [kind |-> "SchemeParsingError", scheme |-> <<>>, rest |-> <<>>]
        ELSE LET i == CHOOSE i \in hits : \A j \in hits : i <= j
             IN  [kind   |-> "Ok",
                  scheme |-> <<Variants[i]>>,
                  rest   |-> StripPrefix(inp, SchemeText(Variants[i]))[1]]

-----------------------------------------------------------------------------
(* Label and Host.                                                         *)

\* Label::char_is_allowed.
CharIsAllowed(c) == IsAlphabetic(c) \/ c \in {Ord("_"), Ord("-")}

\* Label::from_str: "Ok", or the LabelError.
LabelFromStr(value) ==
    IF value = <<>> THEN "Empty"
    ELSE IF ~IsAlphabetic(value[1]) THEN "FirstCharNotAlphabetic"
    ELSE IF \E i \in 1..Len(value) : ~CharIsAllowed(value[i]) THEN "ContainsInvalidChar"
    ELSE "Ok"

\* The labels Host::parse collects: one Label::from_str per '.'-separated piece.
HostLabels(hostText) == Split(hostText, Ord("."))

\* Host::parse.  A Host is the sequence of its labels: name first, then domains.
HostParse(inp) ==
    LET idx      == FindIn(inp, {Ord("/"), Ord(":")})
        hostText == IF idx = 0 THEN inp ELSE Take(inp, idx - 1)
        rest     == IF idx = 0 THEN <<>> ELSE Drop(inp, idx - 1)
        labels   == HostLabels(hostText)
        bad      == {i \in 1..Len(labels) : LabelFromStr(labels[i]) # "Ok"}
    IN  IF bad # {}
        THEN [kind  |-> "LabelError",
              cause |-> LabelFromStr(labels[CHOOSE i \in bad : \A j \in bad : i <= j]),
              host  |-> <<>>, rest |-> <<>>]
        ELSE IF Len(labels) = 0
        THEN [kind |-> "NoLabels", cause |-> "", host |-> <<>>, rest |-> <<>>]
        ELSE [kind |-> "Ok", cause |-> "",
              host |-> <<[name |-> Head(labels), domains |-> Tail(labels)]>>,
              rest |-> rest]

RECURSIVE JoinDomains(_)
JoinDomains(domains) ==
    IF domains = <<>> THEN <<>>
    ELSE <<Ord(".")>> \o Head(domains) \o JoinDomains(Tail(domains))

\* Display for Host.
HostToString(host) == host.name \o JoinDomains(host.domains)

-----------------------------------------------------------------------------
(* Paths (camino::Utf8PathBuf, on Unix).                                   *)

\* Path::is_absolute / has_root.
IsAbsolute(path) == path # <<>> /\ path[1] = Ord("/")

\* Components::include_cur_dir: a relative path that starts with the "." component.
IncludeCurDir(path) ==
    /\ ~IsAbsolute(path)
    /\ path # <<>> /\ path[1] = Ord(".")
    /\ (Len(path) = 1 \/ path[2] = Ord("/"))

\* Components::len_before_body.
LenBeforeBody(path) ==
    (IF IsAbsolute(path) THEN 1 ELSE 0) + (IF IncludeCurDir(path) THEN 1 ELSE 0)

\* The pieces of the body that are components: "" and "." are skipped.
BodyComponents(path) ==
    SelectSeq(Split(Drop(path, LenBeforeBody(path)), Ord("/")),
              LAMBDA c : c # <<>> /\ c # <<Ord(".")>>)

\* Path::components, front to back.
Components(path) ==
    (IF IsAbsolute(path) THEN << <<"RootDir">> >> ELSE <<>>)
    \o (IF IncludeCurDir(path) THEN << <<"CurDir">> >> ELSE <<>>)
    \o [i \in 1..Len(BodyComponents(path)) |->
          IF BodyComponents(path)[i] = <<Ord("."), Ord(".")>>
          THEN <<"ParentDir">>
          ELSE <<"Normal", BodyComponents(path)[i]>>]

\* The last '/'-separated piece of the body of `path`, with the size
\* parse_next_component_back reports for it (the piece and its separator).
LastPiece(path) ==
    LET start == LenBeforeBody(path)
        body  == Drop(path, start)
        seps  == {i \in 1..Len(body) : body[i] = Ord("/")}
        last  == IF seps = {} THEN 0 ELSE CHOOSE i \in seps : \A j \in seps : j <= i
    IN  [comp |-> Drop(body, last),
         size |-> (Len(body) - last) + (IF seps = {} THEN 0 ELSE 1)]

RECURSIVE TrimRight(_, _)
\* Components::trim_right: drop the trailing pieces that are no component.
TrimRight(path, lenBefore) ==
    IF Len(path) > lenBefore
    THEN LET p == LastPiece(path)
         IN  IF p.comp # <<>> /\ p.comp # <<Ord(".")>>
             THEN path
             ELSE TrimRight(Take(path, Len(path) - p.size), lenBefore)
    ELSE path

\* Path::parent: Some(parent) or None.
Parent(path) ==
    LET lenBefore == LenBeforeBody(path)
        q         == TrimRight(path, lenBefore)
    IN  IF Len(q) > lenBefore
        THEN <<TrimRight(Take(q, Len(q) - LastPiece(q).size), lenBefore)>>
        ELSE IF IncludeCurDir(path) THEN <<Take(q, Len(q) - 1)>>
        ELSE <<>>

\* A pop that cuts the text at its last '/', the root's included.
PathPopAtLastSlash(path) ==
    LET seps == {i \in 1..Len(path) : path[i] = Ord("/")}
    IN  IF seps = {} THEN <<>>
        ELSE Take(path, (CHOOSE i \in seps : \A j \in seps : j <= i) - 1)

\* PathBuf::pop: truncate to the parent, if there is one.
PathPop(path) == IF Parent(path) = <<>> THEN path ELSE Take(path, Len(Parent(path)[1]))

-----------------------------------------------------------------------------
(* Url.                                                                    *)

RECURSIVE DecValue(_)
\* The number a run of decimal digits writes.
DecValue(digits) ==
    IF digits = <<>> THEN 0
    ELSE DecValue(Take(digits, Len(digits) - 1)) * 10 + (digits[Len(digits)] - Ord("0"))

\* u16::from_str: Some(n) for a non-empty run of digits (after an optional '+')
\* whose value fits 16 bits, else None.
U16FromStr(s) ==
    LET digits == IF s # <<>> /\ s[1] = Ord("+") THEN Tail(s) ELSE s
    IN  IF digits = <<>> \/ (\E i \in 1..Len(digits) : ~IsNumeric(digits[i])) THEN <<>>
        ELSE IF DecValue(digits) > 65535 THEN <<>>
        ELSE <<DecValue(digits)>>

RECURSIVE Decimal(_)
\* Display for u16.
Decimal(n) ==
    IF n < 10 THEN <<Ord("0") + n>> ELSE Decimal(n \div 10) \o <<Ord("0") + (n % 10)>>

\* BTreeMap::new.
EmptyQuery == [k \in {} |-> <<>>]

\* BTreeMap::insert: a later insert of the same key replaces the value.
Insert(query, k, v) == [x \in (DOMAIN query) \cup {k} |-> IF x = k THEN v ELSE query[x]]

\* Ord for String: bytewise lexicographic.
LexLess(a, b) ==
    \E k \in 0..(IF Len(a) < Len(b) THEN Len(a) ELSE Len(b)) :
        /\ Take(a, k) = Take(b, k)
        /\ \/ k = Len(a) /\ k < Len(b)
           \/ k < Len(a) /\ k < Len(b) /\ a[k + 1] < b[k + 1]

RECURSIVE SortedKeys(_)
\* BTreeMap::iter: the keys in ascending order.
SortedKeys(keys) ==
    IF keys = {} THEN <<>>
    ELSE LET m == CHOOSE x \in keys : \A y \in keys \ {x} : LexLess(x, y)
         IN  <<m>> \o SortedKeys(keys \ {m})

\* The error result of Url::from_str.
Err(kind, cause) == [kind |-> kind, cause |-> cause, url |-> <<>>]

\* A port stage that reports MissingPath when no digit follows the ':'.
ParsePortNoDigitsIsMissingPath(inp) ==
    IF StripPrefix(inp, <<Ord(":")>>) = <<>>
    THEN [kind |-> "Ok", port |-> <<>>, rest |-> inp]
    ELSE LET after    == StripPrefix(inp, <<Ord(":")>>)[1]
             nonnum   == {i \in 1..Len(after) : ~IsNumeric(after[i])}
             splitIdx == IF nonnum = {} THEN 0
                         ELSE CHOOSE i \in nonnum : \A j \in nonnum : i <= j
         IN  IF splitIdx = 0 \/ splitIdx = 1
             THEN [kind |-> "MissingPath", port |-> <<>>, rest |-> <<>>]
             ELSE IF U16FromStr(Take(after, splitIdx - 1)) = <<>>
             THEN [kind |-> "GarbledPort", port |-> <<>>, rest |-> <<>>]
             ELSE [kind |-> "Ok",
                   port |-> U16FromStr(Take(after, splitIdx - 1)),
                   rest |-> Drop(after, splitIdx - 1)]

\* Url::from_str, port stage: the text after the host.
\* [kind, port, rest]; kind is "Ok", "MissingPath" or "GarbledPort".
ParsePort(inp) ==
    IF StripPrefix(inp, <<Ord(":")>>) = <<>>
    THEN [kind |-> "Ok", port |-> <<>>, rest |-> inp]
    ELSE LET after    == StripPrefix(inp, <<Ord(":")>>)[1]
             nonnum   == {i \in 1..Len(after) : ~IsNumeric(after[i])}
             splitIdx == IF nonnum = {} THEN 0
                         ELSE CHOOSE i \in nonnum : \A j \in nonnum : i <= j
         IN  IF splitIdx = 0
             THEN [kind |-> "MissingPath", port |-> <<>>, rest |-> <<>>]
             ELSE IF U16FromStr(Take(after, splitIdx - 1)) = <<>>
             THEN [kind |-> "GarbledPort", port |-> <<>>, rest |-> <<>>]
             ELSE [kind |-> "Ok",
                   port |-> U16FromStr(Take(after, splitIdx - 1)),
                   rest |-> Drop(after, splitIdx - 1)]

\* Url::from_str, the split of the text after the port into
\* (raw_path, raw_query, raw_fragment).
SplitPathQueryFragment(inp) ==
    LET separatorIdx == FindIn(inp, {Ord("?"), Ord("#")})
    IN  IF separatorIdx = 0
        THEN [rawPath |-> inp, rawQuery |-> <<>>, rawFragment |-> <<>>]
        ELSE LET rawPath == Take(inp, separatorIdx - 1)
                 tail    == Drop(inp, separatorIdx - 1)
             IN  IF Head(tail) = Ord("#")
                 THEN [rawPath |-> rawPath, rawQuery |-> <<>>, rawFragment |-> Tail(tail)]
                 ELSE LET q == Tail(tail)
                      IN  IF SplitOnce(q, Ord("#")) = <<>>
                          THEN [rawPath |-> rawPath, rawQuery |-> q, rawFragment |-> <<>>]
                          ELSE [rawPath     |-> rawPath,
                                rawQuery    |-> SplitOnce(q, Ord("#"))[1][1],
                                rawFragment |-> SplitOnce(q, Ord("#"))[1][2]]

\* The (raw_key, raw_val) of one '&'-separated piece.
RawPair(rawPair) ==
    IF SplitOnce(rawPair, Ord("=")) = <<>>
    THEN <<rawPair, <<>> >>
    ELSE SplitOnce(rawPair, Ord("="))[1]

\* An insert that keeps the value a key already has.
InsertPairKeepFirst(query, k, v) ==
    IF k \in DOMAIN query THEN query ELSE Insert(query, k, v)

\* What the query loop does with the pair it has decoded.
InsertPair(query, k, v) == Insert(query, k, v)

RECURSIVE DecodeQuery(_, _)
\* Url::from_str, the query loop over the pieces still to do: Some(query), or
\* None when a key or a value does not decode.
DecodeQuery(pieces, query) ==
    IF pieces = <<>> THEN <<query>>
    ELSE LET kv == RawPair(Head(pieces))
             k  == DecodeUtf8(kv[1])
             v  == DecodeUtf8(kv[2])
         IN  IF k = <<>> \/ v = <<>> THEN <<>>
             ELSE DecodeQuery(Tail(pieces), InsertPair(query, k[1], v[1]))

\* The pieces the query loop iterates over.
QueryPieces(rawQuery) == Split(rawQuery, Ord("&"))

\* A path check that asks for absoluteness before it asks for emptiness.
PathCheckAbsoluteFirst(rawPath, decodedPath) ==
    IF ~IsAbsolute(decodedPath) THEN "PathNotAbsolute"
    ELSE IF rawPath = <<>> THEN "MissingPath"
    ELSE "Ok"

\* Url::from_str, the checks on the path once it is decoded: the raw path
\* must not be empty, and the decoded path must be absolute.
PathCheck(rawPath, decodedPath) ==
    IF rawPath = <<>> THEN "MissingPath"
    ELSE IF ~IsAbsolute(decodedPath) THEN "PathNotAbsolute"
    ELSE "Ok"

\* Url::from_str, from the split text on.
ParseTail(scheme, host, port, inp) ==
    LET parts       == SplitPathQueryFragment(inp)
        decodedPath == DecodeUtf8(parts.rawPath)
    IN  IF decodedPath = <<>> THEN Err("CantDecode", "")
        ELSE IF PathCheck(parts.rawPath, decodedPath[1]) # "Ok"
             THEN Err(PathCheck(parts.rawPath, decodedPath[1]), "")
        ELSE LET query == DecodeQuery(QueryPieces(parts.rawQuery), EmptyQuery)
             IN  IF query = <<>> THEN Err("CantDecode", "")
                 ELSE LET fragment == DecodeUtf8(parts.rawFragment)
                      IN  IF fragment = <<>> THEN Err("CantDecode", "")
                          ELSE [kind  |-> "Ok", cause |-> "",
                                url   |-> <<[scheme   |-> scheme,
                                             host     |-> host,
                                             port     |-> port,
                                             path     |-> decodedPath[1],
                                             query    |-> query[1],
                                             fragment |-> IF fragment[1] = <<>> THEN <<>>
                                                          ELSE fragment]>>]

\* Url::from_str.
UrlFromStr(inp) ==
    LET s == SchemeParse(inp)
    IN  IF s.kind # "Ok" THEN Err("SchemeParsingError", "")
        ELSE LET afterSep == StripPrefix(s.rest, T(<<":", "/", "/">>))
             IN  IF afterSep = <<>> THEN Err("MissingSeparator", "")
                 ELSE LET h == HostParse(afterSep[1])
                      IN  IF h.kind # "Ok"
                          THEN Err("HostError", IF h.kind = "LabelError" THEN h.cause ELSE h.kind)
                          ELSE LET p == ParsePort(h.rest)
                               IN  IF p.kind # "Ok" THEN Err(p.kind, "")
                                   ELSE ParseTail(s.scheme[1], h.host[1], p.port, p.rest)

\* A Display that writes no separator before a relative path.
PathLeadNone(path) == <<>>

\* Display for Url, the separator written before a path.
PathLead(path) == IF ~IsAbsolute(path) THEN <<Ord("/")>> ELSE <<>>

RECURSIVE PairsToString(_, _, _)
\* Display for Url, the loop over the query's entries: idx is the number of
\* entries already written.
PairsToString(query, keys, idx) ==
    IF keys = <<>> THEN <<>>
    ELSE (IF idx > 0 THEN <<Ord("&")>> ELSE <<>>)
         \o PercentEncode(Head(keys)) \o <<Ord("=")>> \o PercentEncode(query[Head(keys)])
         \o PairsToString(query, Tail(keys), idx + 1)

\* Display for Url, up to and including the port.
AuthorityToString(u) ==
    SchemeText(u.scheme) \o T(<<":", "/", "/">>) \o HostToString(u.host)
    \o (IF u.port # <<>> THEN <<Ord(":")>> \o Decimal(u.port[1]) ELSE <<>>)

\* Display for Url (to_string).
UrlToString(u) ==
    AuthorityToString(u)
    \o PathLead(u.path)
    \o PercentEncode(u.path)
    \o (IF DOMAIN u.query # {}
        THEN <<Ord("?")>> \o PairsToString(u.query, SortedKeys(DOMAIN u.query), 0)
        ELSE <<>>)
    \o (IF u.fragment # <<>> THEN <<Ord("#")>> \o PercentEncode(u.fragment[1]) ELSE <<>>)

\* Url::into_parent.
IntoParentOf(u) == [u EXCEPT !.path = PathPop(u.path)]

\* PartialEq for Url: derived, field by field; Utf8PathBuf compares components.
UrlEq(a, b) ==
    /\ a.scheme = b.scheme
    /\ a.host = b.host
    /\ a.port = b.port
    /\ Components(a.path) = Components(b.path)
    /\ a.query = b.query
    /\ a.fragment = b.fragment

-----------------------------------------------------------------------------
(* Bounds and inputs.                                                      *)

\* The longest text tried as the input of Scheme::parse.
MaxSchemeLen == 5
\* The longest text tried as the input of Host::parse.
MaxHostLen == 4
\* The longest text p tried after "http://example.com".
MaxTailLen == 4
\* The longest raw path tried after the host and port.
MaxRawPathLen == 3
\* The most '&'-separated pieces of a raw query.
MaxPieces == 2
\* The longest path of a Url built field by field.
MaxPathLen == 2
\* The longest path into_parent is tried on, and the most into_parent calls.
MaxParentPathLen == 5
MaxPops == 3
\* How many times a Url's text is inserted as a query value of a Url.
MaxNest == 1

\* All texts over `alphabet` (a set of characters) of length at most n.
Texts(alphabet, n) ==
    UNION {[1..k -> {Ord(c) : c \in alphabet}] : k \in 0..n}

RECURSIVE JoinPieces(_)
JoinPieces(pieces) ==
    IF pieces = <<>> THEN <<>>
    ELSE IF Len(pieces) = 1 THEN pieces[1]
    ELSE pieces[1] \o <<Ord("&")>> \o JoinPieces(Tail(pieces))

EXAMPLE_COM == T(<<"h", "t", "t", "p", ":", "/", "/", "e", "x", "a", "m", "p", "l", "e", ".", "c", "o", "m">>)
WSS_A_B == T(<<"w", "s", "s", ":", "/", "/", "a", ".", "b">>)

\* Texts that fail before the port stage, and one that does not.
Prefixes ==
    { T(<<"f", "t", "p", ":", "/", "/", "a", "/">>),
      T(<<"h", "t", "t", "p", "s", ":", "/", "a", "/">>),
      T(<<"w", "s", ":", "/", "/", "/", "a">>),
      T(<<"w", "s", ":", "/", "/", "a", ".", ".", "b", "/">>),
      T(<<"w", "s", ":", "/", "/", "1", "a", "/">>),
      T(<<"w", "s", ":", "/", "/", "a", "$", "/">>),
      T(<<"h", "t", "t", "p", "s", ":", "/", "/", "s", "o", "m", "e", "_", "h", "o", "s", "t", ".", "a", ".", "b", ".", "c", ":", "1", "2", "3",
          "/", "s", "o", "m", "e", "/", "p", "a", "t", "h", "?", "b", "=", "2", "&", "a", "=", "1", "#", "f", "r", "a", "g">>) }

PortTexts ==
    { <<>>, T(<<":">>), T(<<":", "8">>), T(<<":", "0", "8", "0">>),
      T(<<":", "6", "5", "5", "3", "5">>), T(<<":", "6", "5", "5", "3", "6">>) }

RawPaths == Texts({"/", "a", "%", "2", "F"}, MaxRawPathLen)

PieceTexts ==
    { <<>>, T(<<"a">>), T(<<"a", "=">>), T(<<"a", "=", "1">>), T(<<"a", "=", "2">>),
      T(<<"b", "=", "1">>), T(<<"%", "6", "1", "=", "3">>), T(<<"a", "=", "%", "2", "6">>),
      T(<<"=">>), T(<<"a", "=", "b", "=", "c">>), T(<<"k", "=", "%", "F", "F">>),
      T(<<"%", "2", "5", "=", "%", "3", "D">>),
      T(<<"%", "2", "5", "2", "5", "=", "%", "2", "5", "3", "D">>) }

RawQueries ==
    {JoinPieces(ps) : ps \in UNION {[1..k -> PieceTexts] : k \in 1..MaxPieces}}

RawFragments ==
    { <<>>, T(<<"f">>), T(<<"%", "2", "3">>), T(<<"a", "?", "b", "#", "c">>), T(<<"%", "F", "F">>) }

\* The texts Url::from_str is tried on.
UrlInputs ==
    Prefixes
    \cup {WSS_A_B \o port \o path \o suffix :
            port \in PortTexts, path \in RawPaths,
            suffix \in {<<>>, T(<<"?", "a", "=", "1", "#", "f">>)}}
    \cup {WSS_A_B \o path \o <<Ord("?")>> \o q \o f :
            path \in {<<>>, T(<<"/">>), T(<<"/", "a", "%", "3", "F">>)},
            q \in RawQueries,
            f \in {<<>>, T(<<"#">>), T(<<"#", "f">>)}}
    \cup {WSS_A_B \o T(<<"/", "a">>) \o q \o <<Ord("#")>> \o f :
            q \in {<<>>, T(<<"?", "a", "=", "1">>)}, f \in RawFragments}

\* "http://example.com" followed by any text p.
ExampleInputs ==
    {EXAMPLE_COM \o p : p \in Texts({"/", ":", "8", "x", "%", "2", "F", "?"}, MaxTailLen)}

SchemeInputs == Texts({"w", "s", "h", "t", "p", ":"}, MaxSchemeLen)

HostInputs == Texts({"a", "-", "1", ".", "/", ":"}, MaxHostLen)

\* The Urls built field by field.
Authorities ==
    { [scheme |-> "Https",
       host   |-> [name    |-> T(<<"s", "o", "m", "e", "_", "h", "o", "s", "t">>),
                   domains |-> <<T(<<"a">>), T(<<"b">>)>>],
       port   |-> <<123>>],
      [scheme |-> "Ws", host |-> [name |-> T(<<"a">>), domains |-> <<>>], port |-> <<>>],
      [scheme |-> "Http", host |-> [name |-> T(<<"a", "-", "b">>), domains |-> <<>>],
       port   |-> <<0>>],
      [scheme |-> "Wss", host |-> [name |-> T(<<"a">>), domains |-> <<T(<<"b">>)>>],
       port   |-> <<65535>>] }

BuiltPaths == Texts({"/", "a", "?", "."}, MaxPathLen)

BuiltQueries ==
    { EmptyQuery,
      (<<>> :> <<>>),
      (T(<<"s", "p", "a", "c", "e", " ", "s", "p", "a", "c", "e">>) :> T(<<"a", "&", "a">>))
          @@ (T(<<"e", "q", "=", "e", "q">>) :> T(<<"h", "#", "h">>)),
      (T(<<"%", "2", "5">>) :> T(<<"%">>)) @@ (T(<<"a">>) :> <<>>) }

BuiltFragments ==
    { <<>>, << <<>> >>, <<T(<<"i", "n", "n", "e", "r">>)>>, <<T(<<"#", "%", "?">>)>> }

BuiltUrls ==
    { [scheme |-> a.scheme, host |-> a.host, port |-> a.port,
       path |-> p, query |-> q, fragment |-> f] :
      a \in Authorities, p \in BuiltPaths, q \in BuiltQueries, f \in BuiltFragments }

\* The Urls into_parent is tried on.
ParentUrls ==
    { [scheme |-> "Http", host |-> [name |-> T(<<"a">>), domains |-> <<>>], port |-> <<80>>,
       path |-> p, query |-> q, fragment |-> <<T(<<"f">>)>>] :
      p \in Texts({"/", "a", "."}, MaxParentPathLen),
      q \in {EmptyQuery, (T(<<"k">>) :> T(<<"v">>))} }

\* The key under which a Url's text is inserted (test_parsing: "some_url").
SOME_URL == T(<<"s", "o", "m", "e", "_", "u", "r", "l">>)

-----------------------------------------------------------------------------
(* The state machine: a caller holding a text and a Url.                   *)

NoResult == [kind |-> "None", cause |-> "", url |-> <<>>]

Idle ==
    /\ result = NoResult /\ op = "init" /\ shown = <<>> /\ inner = <<>>
    /\ nest = 0 /\ base = <<>> /\ pops = 0

InitText(inputs) == input \in inputs /\ url = <<>> /\ origin = "none" /\ Idle

InitExample == InitText(ExampleInputs)

InitScheme == InitText(SchemeInputs)

InitHost == InitText(HostInputs)

InitBuild == input = <<>> /\ url \in {<<u>> : u \in BuiltUrls} /\ origin = "built" /\ Idle

\* The caller holds a text to parse, or has built a Url field by field.
Init == InitText(UrlInputs) \/ InitBuild

InitParent ==
    /\ input = <<>> /\ url \in {<<u>> : u \in ParentUrls} /\ origin = "built"
    /\ result = NoResult /\ op = "init" /\ shown = <<>> /\ inner = <<>> /\ nest = 0
    /\ base = url /\ pops = 0

\* Url::from_str(input), on a text not yet parsed.
FromStrCall ==
    /\ op \in {"init", "to_string"}
    /\ input # <<>>
    /\ result' = UrlFromStr(input)
    /\ url' = IF result'.kind = "Ok" THEN result'.url ELSE url
    /\ origin' = IF result'.kind = "Ok" THEN "parsed" ELSE origin
    /\ op' = "from_str"
    /\ UNCHANGED <<input, shown, inner, nest, base, pops>>

\* url.to_string().
ToStringCall ==
    /\ url # <<>>
    /\ op \in {"init", "from_str", "insert"}
    /\ input' = UrlToString(url[1])
    /\ shown' = <<[url |-> url[1], origin |-> origin]>>
    /\ op' = "to_string"
    /\ UNCHANGED <<url, origin, result, inner, nest, base, pops>>

\* url.query.insert("some_url", url_param.to_string()), on a Url built field by
\* field, with the text of the Url last written (test_parsing).
InsertUrlParamCall ==
    /\ op = "to_string"
    /\ origin = "built"
    /\ nest < MaxNest
    /\ url' = <<[url[1] EXCEPT !.query = Insert(@, SOME_URL, input)]>>
    /\ inner' = <<shown[1].url>>
    /\ nest' = nest + 1
    /\ op' = "insert"
    /\ UNCHANGED <<input, origin, result, shown, base, pops>>

\* Url::from_str(parsed.query.get("some_url")), after the outer Url was parsed.
FromStrParamCall ==
    /\ op = "from_str"
    /\ result.kind = "Ok"
    /\ inner # <<>>
    /\ SOME_URL \in DOMAIN url[1].query
    /\ result' = UrlFromStr(url[1].query[SOME_URL])
    /\ op' = "from_str_param"
    /\ UNCHANGED <<input, url, origin, shown, inner, nest, base, pops>>

\* url.into_parent().
IntoParentCall ==
    /\ url # <<>>
    /\ pops < MaxPops
    /\ url' = <<IntoParentOf(url[1])>>
    /\ pops' = pops + 1
    /\ op' = "into_parent"
    /\ UNCHANGED <<input, origin, result, shown, inner, nest, base>>

\* Scheme::parse(input).
SchemeParseCall ==
    /\ op = "init"
    /\ result' = SchemeParse(input)
    /\ op' = "Scheme::parse"
    /\ UNCHANGED <<input, url, origin, shown, inner, nest, base, pops>>

\* Host::parse(input).
HostParseCall ==
    /\ op = "init"
    /\ result' = HostParse(input)
    /\ op' = "Host::parse"
    /\ UNCHANGED <<input, url, origin, shown, inner, nest, base, pops>>

Next == FromStrCall \/ ToStringCall \/ InsertUrlParamCall \/ FromStrParamCall

NextText == FromStrCall \/ ToStringCall

\* Texts parsed, Urls built field by field, formatted, nested as query values
\* and parsed again.
Spec == Init /\ [][Next]_vars

\* Parsing "http://example.com" followed by any text.
SpecExample == InitExample /\ [][NextText]_vars

SpecParent == InitParent /\ [][IntoParentCall]_vars

SpecScheme == InitScheme /\ [][SchemeParseCall]_vars

SpecHost == InitHost /\ [][HostParseCall]_vars

-----------------------------------------------------------------------------
(* The stages of Url::from_str, as the claims name them.                   *)

\* Url::from_str up to the host: Some(text remaining after the host), or None
\* when the scheme, the separator or the host fails.
AfterHost(inp) ==
    LET s == SchemeParse(inp)
    IN  IF s.kind # "Ok" \/ StripPrefix(s.rest, T(<<":", "/", "/">>)) = <<>> THEN <<>>
        ELSE LET h == HostParse(StripPrefix(s.rest, T(<<":", "/", "/">>))[1])
             IN  IF h.kind # "Ok" THEN <<>> ELSE <<h.rest>>

\* Url::from_str up to the port: Some(text remaining after the host and the
\* optional port), or None.
AfterPort(inp) ==
    LET h == AfterHost(inp)
    IN  IF h = <<>> THEN <<>>
        ELSE LET p == ParsePort(h[1])
             IN  IF p.kind # "Ok" THEN <<>> ELSE <<p.rest>>

\* The parse of the text the caller started with.
ParsedInput == op = "from_str" /\ shown = <<>>

\* The parse of a text that to_string wrote.
ParsedShown == op = "from_str" /\ shown # <<>>

-----------------------------------------------------------------------------
(* The claims.                                                             *)

\* C1: round trip of parsed values.  When the Url that to_string wrote was
\* itself returned by Url::from_str, parsing the text succeeds and returns a
\* Url equal to it, field by field; also when one of its query values is the
\* whole text of another Url.
C1_ParsedRoundTrip ==
    (ParsedShown /\ shown[1].origin = "parsed") =>
        /\ result.kind = "Ok"
        /\ UrlEq(result.url[1], shown[1].url)
        /\ result.url[1] = shown[1].url

\* A parsed Url, one of whose query values is the text of another Url, was
\* written and parsed again.
C1_Witness ==
    /\ ParsedShown /\ shown[1].origin = "parsed" /\ result.kind = "Ok"
    /\ inner # <<>>
    /\ SOME_URL \in DOMAIN shown[1].url.query
    /\ shown[1].url.query[SOME_URL] = UrlToString(inner[1])

\* C2: round trip of Urls built field by field, with an absolute path, any
\* port, any query mapping and any optional fragment: parsing the text
\* to_string wrote returns an equal Url, and parsing the query value that holds
\* another such Url's text returns a Url equal to that one.
C2_BuiltRoundTrip ==
    /\ (ParsedShown /\ shown[1].origin = "built" /\ IsAbsolute(shown[1].url.path)) =>
           (result.kind = "Ok" /\ UrlEq(result.url[1], shown[1].url))
    /\ (op = "from_str_param" /\ IsAbsolute(inner[1].path)) =>
           (result.kind = "Ok" /\ UrlEq(result.url[1], inner[1]))

\* The literals of which `inp` starts with one.
PrefixLiterals(inp) ==
    {v \in {"Wss", "Ws", "Https", "Http"} : StripPrefix(inp, SchemeText(v)) # <<>>}

\* C3: Scheme::parse returns the longest of the four literals that is a prefix
\* of the input, with a remainder such that literal followed by remainder is
\* the input; it fails exactly when no literal is a prefix.
C3_LongestScheme ==
    op = "Scheme::parse" =>
        IF PrefixLiterals(input) = {}
        THEN result.kind = "SchemeParsingError"
        ELSE /\ result.kind = "Ok"
             /\ result.scheme[1] \in PrefixLiterals(input)
             /\ \A v \in PrefixLiterals(input) :
                    Len(SchemeText(v)) <= Len(SchemeText(result.scheme[1]))
             /\ SchemeText(result.scheme[1]) \o result.rest = input

\* A text starting with "wss" was parsed as Wss.
C3_Witness ==
    /\ op = "Scheme::parse"
    /\ PrefixLiterals(input) = {"Wss", "Ws"}
    /\ result.scheme = <<"Wss">>

\* The text p after "http://example.com".
TailOf(inp) == Drop(inp, Len(EXAMPLE_COM))

\* The text up to the first '?' or '#'.
UpToQueryOrFragment(t) ==
    IF FindIn(t, {Ord("?"), Ord("#")}) = 0 THEN t
    ELSE Take(t, FindIn(t, {Ord("?"), Ord("#")}) - 1)

\* p is h ':' d r: h holds no '/' or ':' and extends "example.com" to a host
\* of valid labels, d is a non-empty run of digits worth at most 65535, and r
\* starts with a non-digit and has a non-empty raw path (the text up to the
\* first '?' or '#') that percent-decodes to text not starting with '/'.
PortThenRelativePath(p) ==
    LET c == FindIn(p, {Ord("/"), Ord(":")})
    IN  /\ c # 0 /\ p[c] = Ord(":")
        /\ \A l \in {Split(T(<<"e", "x", "a", "m", "p", "l", "e", ".", "c", "o", "m">>)
                             \o Take(p, c - 1), Ord("."))[i] :
                      i \in 1..Len(Split(T(<<"e", "x", "a", "m", "p", "l", "e", ".", "c", "o", "m">>)
                                         \o Take(p, c - 1), Ord(".")))} :
               LabelFromStr(l) = "Ok"
        /\ \E k \in (c + 1)..(Len(p) - 1) :
               /\ \A i \in (c + 1)..k : IsNumeric(p[i])
               /\ DecValue(SubSeq(p, c + 1, k)) <= 65535
               /\ ~IsNumeric(p[k + 1])
               /\ UpToQueryOrFragment(Drop(p, k)) # <<>>
               /\ DecodeUtf8(UpToQueryOrFragment(Drop(p, k))) # <<>>
               /\ ~IsAbsolute(DecodeUtf8(UpToQueryOrFragment(Drop(p, k)))[1])

\* C4 as stated: for every non-empty p not starting with '/', parsing
\* "http://example.com" followed by p fails with PathNotAbsolute.
C4_AlwaysPathNotAbsolute ==
    (ParsedInput /\ TailOf(input) # <<>> /\ TailOf(input)[1] # Ord("/")) =>
        result.kind = "PathNotAbsolute"

\* C4 as amended: for every non-empty p not starting with '/', parsing
\* "http://example.com" followed by p fails with PathNotAbsolute exactly when
\* p is a host extension, a ':' with a valid port, and a non-empty raw path
\* that decodes to text not starting with '/'.
C4_PathNotAbsoluteIffPortThenRelative ==
    (ParsedInput /\ TailOf(input) # <<>> /\ TailOf(input)[1] # Ord("/")) =>
        (result.kind = "PathNotAbsolute" <=> PortThenRelativePath(TailOf(input)))

\* "http://example.com:8x" was parsed, and failed with PathNotAbsolute.
C4_Witness ==
    /\ ParsedInput
    /\ TailOf(input) = T(<<":", "8", "x">>)
    /\ result.kind = "PathNotAbsolute"

\* C5 as stated: when the text after a parsed host starts with ':' and the
\* ':' is followed by the end of the input or by a non-digit, Url::from_str
\* fails with MissingPath.
C5_NoDigitsIsMissingPath ==
    (op = "from_str" /\ AfterHost(input) # <<>> /\ AfterHost(input)[1] # <<>>
        /\ AfterHost(input)[1][1] = Ord(":")
        /\ (Len(AfterHost(input)[1]) = 1 \/ ~IsNumeric(AfterHost(input)[1][2]))) =>
        result.kind = "MissingPath"

\* C5 as amended: when the text after a parsed host starts with ':', and
\* nothing but digits (or nothing at all) follows the ':', Url::from_str fails
\* with MissingPath; when a non-digit immediately follows the ':', it fails
\* with GarbledPort.
C5_PortStage ==
    (op = "from_str" /\ AfterHost(input) # <<>> /\ AfterHost(input)[1] # <<>>
        /\ AfterHost(input)[1][1] = Ord(":")) =>
        LET after == Tail(AfterHost(input)[1])
        IN  /\ (\A i \in 1..Len(after) : IsNumeric(after[i])) => result.kind = "MissingPath"
            /\ (after # <<>> /\ ~IsNumeric(after[1])) => result.kind = "GarbledPort"

\* A text ending in the ':' after its host was parsed, and failed with
\* MissingPath.
C5_Witness ==
    /\ op = "from_str"
    /\ AfterHost(input) = <<T(<<":">>)>>
    /\ result.kind = "MissingPath"

\* The host text Host::parse isolates: the input up to the first '/' or ':'.
HostTextOf(inp) ==
    IF FindIn(inp, {Ord("/"), Ord(":")}) = 0 THEN inp
    ELSE Take(inp, FindIn(inp, {Ord("/"), Ord(":")}) - 1)

\* C6: when the host text Host::parse isolates is empty, it fails with
\* NoLabels, not with a Label error.
C6_EmptyHostIsNoLabels ==
    (op = "Host::parse" /\ HostTextOf(input) = <<>>) => result.kind = "NoLabels"

\* The raw query of a text Url::from_str accepts.
RawQueryOf(inp) == SplitPathQueryFragment(AfterPort(inp)[1]).rawQuery

\* The '&'-separated pieces of the raw query.
PiecesOf(inp) == Split(RawQueryOf(inp), Ord("&"))

\* The decoded keys, and the decoded values, of the pieces.
PieceKeys(pieces) == [i \in 1..Len(pieces) |-> DecodeUtf8(RawPair(pieces[i])[1])[1]]
PieceVals(pieces) == [i \in 1..Len(pieces) |-> DecodeUtf8(RawPair(pieces[i])[2])[1]]

\* C7: the parsed query maps each key to the decoded value of the rightmost
\* '&'-separated piece whose decoded key is that key (a piece without '='
\* giving the empty value), and has no other keys.
C7_LastWriteWins ==
    (op = "from_str" /\ result.kind = "Ok") =>
        LET query  == result.url[1].query
            pieces == PiecesOf(input)
            key    == PieceKeys(pieces)
            val    == PieceVals(pieces)
            n      == Len(pieces)
        IN  /\ DOMAIN query = {key[i] : i \in 1..n}
            /\ \A i \in 1..n :
                   (\A j \in (i + 1)..n : key[j] # key[i]) => query[key[i]] = val[i]

\* A query with the same key in two pieces, with different values, was parsed.
C7_Witness ==
    /\ op = "from_str" /\ result.kind = "Ok"
    /\ LET pieces == PiecesOf(input)
           key    == PieceKeys(pieces)
           val    == PieceVals(pieces)
           n      == Len(pieces)
       IN  \E i \in 1..n : \E j \in (i + 1)..n : key[i] = key[j] /\ val[i] # val[j]

\* The number of leading components into_parent never removes: the root.
Floor(path) == IF IsAbsolute(path) THEN 1 ELSE 0

\* C8: after n >= 1 into_parent calls the Url has the scheme, host, port,
\* query and fragment it started with, and its path is the starting path with
\* its last n segments removed (the root is never removed); on the root path
\* into_parent returns its argument.
C8_IntoParentOnlyPath ==
    pops >= 1 =>
        LET u == url[1]
            b == base[1]
            n == Len(Components(b.path))
            keep == IF n - pops > Floor(b.path) THEN n - pops ELSE Floor(b.path)
        IN  /\ u.scheme = b.scheme /\ u.host = b.host /\ u.port = b.port
            /\ u.query = b.query /\ u.fragment = b.fragment
            /\ Components(u.path) = SubSeq(Components(b.path), 1, keep)
            /\ Components(b.path) = << <<"RootDir">> >> => u = b

\* Two into_parent calls on a path of a root and three segments.
C8_Witness ==
    /\ pops = 2
    /\ IsAbsolute(base[1].path)
    /\ Len(Components(base[1].path)) = 3
    /\ Len(Components(url[1].path)) = 1

\* C9: when the text after the host and the optional port holds neither '?'
\* nor '#' and Url::from_str succeeds, the path is the percent-decoded
\* remainder, the query mapping has no entries and the fragment is absent.
C9_NoQueryNoFragment ==
    (op = "from_str" /\ result.kind = "Ok"
        /\ FindIn(AfterPort(input)[1], {Ord("?"), Ord("#")}) = 0) =>
        /\ result.url[1].path = DecodeUtf8(AfterPort(input)[1])[1]
        /\ DOMAIN result.url[1].query = {}
        /\ result.url[1].fragment = <<>>

\* C10: the text to_string writes has a '/' right after the host, or after
\* the port digits, whatever the path, and Url::from_str accepts it.
C10_FormattedParses ==
    /\ op = "to_string" =>
           /\ Len(input) > Len(AuthorityToString(shown[1].url))
           /\ input[Len(AuthorityToString(shown[1].url)) + 1] = Ord("/")
    /\ ParsedShown => result.kind = "Ok"

\* The text of a Url built with a relative path was parsed.
C10_Witness ==
    /\ ParsedShown /\ result.kind = "Ok"
    /\ shown[1].origin = "built"
    /\ shown[1].url.path # <<>>
    /\ ~IsAbsolute(shown[1].url.path)

====
